---------------------------- MODULE Spec2Model ----------------------------
(***************************************************************************)
(* Model of the VerifiQuant question page (src/static/app.js and its older *)
(* copy src/unnamed/part_001) and of the per-request solve pipeline the    *)
(* page calls through POST /api/solve.                                      *)
(*                                                                          *)
(* The page is an event-driven script.  Every action below is one run to   *)
(* completion of the JavaScript event loop: an event listener up to its    *)
(* first await, the settling of a promise by the network, or the           *)
(* continuation (microtask) that the settled promise resumes.              *)
(***************************************************************************)
EXTENDS Integers, Sequences, FiniteSets, TLC

\* ------------------------------------------------------------------ bounds
MaxRequests == 2   \* submit events per page
MaxSteps    == 2   \* steps in a success response
MaxMissing  == 2   \* names in missing_inputs
MaxHard     == 2   \* hard-severity checks that can fail on one request

VARIABLES
  copy,            \* which copy of the script the page runs
  domainValue,     \* domainSelect.value
  topicOpts,       \* option values of topicSelect, in document order
  topicValue,      \* topicSelect.value
  loaderHidden,    \* loader.classList has "hidden"
  buttonDisabled,  \* form.querySelector("button").disabled
  resultHidden,    \* resultEl.classList has "hidden"
  resultContent,   \* what resultEl shows
  reqs,            \* one record per run of the submit handler
  micro,           \* the settled promise whose continuation is queued
  handed,          \* what the try block (or, after a rejection, the catch
                   \* block) last handed to renderResult since the last submit
  sent,            \* the payload of the latest call of fetch()
  pipe             \* one request inside the solve pipeline behind /api/solve

vars == <<pipe, copy, domainValue, topicOpts, topicValue, loaderHidden,
          buttonDisabled, resultHidden, resultContent, reqs, micro, handed,
          sent>>

\* ------------------------------------------------------- response values
Copies == {"app", "part_001"}

\* a JavaScript value of a step: a number (in units of 0.00001) or a string
\* that is not a number
Num(n) == [t |-> "number", n |-> n]
NotANumber == [t |-> "string", n |-> 0]

sExcess == [variable |-> "excess_return", formula |-> "mean - rf", value |-> Num(6000)]
sSharpe == [variable |-> "sharpe", formula |-> "", value |-> Num(50005)]
sStd    == [variable |-> "std", formula |-> "sqrt(var)", value |-> NotANumber]
StepSet == {sExcess, sSharpe, sStd}

RECURSIVE SeqsUpTo(_, _)
SeqsUpTo(S, n) ==
  IF n = 0 THEN {<<>>}
  ELSE LET shorter == SeqsUpTo(S, n - 1)
       IN  shorter \cup {Append(s, x) : s \in shorter, x \in S}

\* an optional array field of a response: absent, or present with items
Absent == [present |-> FALSE, items |-> <<>>]
Present(s) == [present |-> TRUE, items |-> s]

MissingNames == {"std", "rf"}

Response(status, steps, missing, message) ==
  [status |-> status, steps |-> steps, missing_inputs |-> missing,
   message |-> message, reason |-> "missing required input",
   card_id |-> "sharpe_ratio", output_value |-> 50000]

SuccessResponses ==
  {Response("success", st, Absent, "") :
     st \in {Absent} \cup {Present(s) : s \in SeqsUpTo(StepSet, MaxSteps)}}
RefusedResponses ==
  {Response("refused", Absent, mi, "") :
     mi \in {Absent} \cup {Present(s) : s \in SeqsUpTo(MissingNames, MaxMissing)}}
ErrorResponses ==
  {Response(st, Absent, Absent, m) : st \in {"error", "pending"}, m \in {"", "boom"}}
Responses == SuccessResponses \cup RefusedResponses \cup ErrorResponses


\* -------------------------------------------------------------- the view
DefaultFormula == "formula-placeholder"       \* the literal of app.js line 37
UnknownError   == "unknown-system-error"      \* the literal of line 66 / 60

NoMissingLine == [shown |-> FALSE, tokens |-> <<>>]

Blank(kind) ==
  [kind |-> kind, text |-> "", reason |-> "", missing |-> NoMissingLine,
   card |-> "", steps |-> <<>>, output |-> [shown |-> FALSE, n |-> 0]]

\* resultEl.textContent = ""
EmptyView == Blank("empty")

\* Number.prototype.toFixed(4) of n/100000: the count of 0.0001 nearest to
\* it, the one further from zero when two are equally near
ToFixed4(n) == IF n >= 0 THEN (n + 5) \div 10 ELSE 0 - ((5 - n) \div 10)

\* Number(step.value).toFixed(4): Number() of a string that is not a number
\* is NaN, and NaN.toFixed(4) is the text "NaN"
NumberToFixed(v) ==
  IF v.t = "number" THEN [t |-> "fixed4", n |-> ToFixed4(v.n)]
  ELSE [t |-> "NaN", n |-> 0]

\* step.value.toFixed(4) throws a TypeError on a value that has no toFixed
HasToFixed(v) == v.t = "number"

\* one element of data.steps.map(...): idx is the array index, from 0
StepLineZeroBased(c, step, idx) ==
  [idx |-> idx, variable |-> step.variable,
   formula |-> IF c = "app" /\ step.formula = "" THEN DefaultFormula
               ELSE step.formula,
   value |-> NumberToFixed(step.value)]

StepLine(c, step, idx) ==
  [idx |-> idx + 1, variable |-> step.variable,
   formula |-> IF c = "app" /\ step.formula = "" THEN DefaultFormula
               ELSE step.formula,
   value |-> NumberToFixed(step.value)]

\* Array.prototype.join(", "): the elements with the separator between them
RECURSIVE Join(_)
Join(s) ==
  IF Len(s) = 0 THEN <<>>
  ELSE IF Len(s) = 1 THEN <<s[1]>>
  ELSE <<s[1], ", ">> \o Join(Tail(s))

\* the success branch throws before it writes resultEl when data.steps is
\* undefined (.map of undefined) and, in part_001, when a step value has no
\* toFixed method
SuccessThrows(c, data) ==
  \/ ~data.steps.present
  \/ /\ c = "part_001"
     /\ \E i \in 1..Len(data.steps.items) : ~HasToFixed(data.steps.items[i].value)

SuccessView(c, data) ==
  [Blank("success") EXCEPT
     !.card = data.card_id,
     !.steps = [i \in 1..Len(data.steps.items) |->
                  StepLine(c, data.steps.items[i], i - 1)],
     !.output = [shown |-> TRUE, n |-> data.output_value]]

\* app.js: data.missing_inputs?.length ? line : ""
\* part_001: data.missing_inputs ? line : ""   (an empty array is truthy)
MissingLine(c, data) ==
  IF c = "app"
  THEN IF data.missing_inputs.present /\ Len(data.missing_inputs.items) > 0
       THEN [shown |-> TRUE, tokens |-> Join(data.missing_inputs.items)]
       ELSE NoMissingLine
  ELSE IF data.missing_inputs.present
       THEN [shown |-> TRUE, tokens |-> Join(data.missing_inputs.items)]
       ELSE NoMissingLine

RefusedView(c, data) ==
  [Blank("refused") EXCEPT !.reason = data.reason, !.missing = MissingLine(c, data)]

\* resultEl.textContent = data.message || default
ErrorView(data) ==
  [Blank("error") EXCEPT
     !.text = IF data.message = "" THEN UnknownError ELSE data.message]

\* renderResult(data) on a result element el = [hidden, content]: the element
\* after the call, and whether the call threw
renderResult(c, el, data) ==
  IF data.status = "success"
  THEN IF SuccessThrows(c, data)
       THEN [threw |-> TRUE, hidden |-> FALSE, content |-> el.content]
       ELSE [threw |-> FALSE, hidden |-> FALSE, content |-> SuccessView(c, data)]
  ELSE IF data.status = "refused"
  THEN [threw |-> FALSE, hidden |-> FALSE, content |-> RefusedView(c, data)]
  ELSE [threw |-> FALSE, hidden |-> FALSE, content |-> ErrorView(data)]

\* the object the catch block builds from the caught error
ErrorObject(message) == Response("error", Absent, Absent, message)

\* try { renderResult(data) } catch (error) { renderResult({error}) }
RenderOrCatch(c, el, data) ==
  LET first == renderResult(c, el, data)
  IN  IF first.threw
      THEN renderResult(c, [hidden |-> first.hidden, content |-> first.content],
                        ErrorObject("TypeError"))
      ELSE first

\* ------------------------------------------------------------ the page
\* window.TOPIC_OPTIONS: the configured domain -> topics mapping
TOPIC_OPTIONS == [risk |-> <<"sharpe", "sortino">>, bond |-> <<"duration">>]

\* the values the domain selector offers: "" (no domain), the configured
\* domains, and a domain that has no entry in TOPIC_OPTIONS
DomainValues == {"", "risk", "bond", "fx"}

\* const topics = domain ? topicOptions[domain] || [] : [];
TopicsOf(domain) ==
  IF domain # "" /\ domain \in DOMAIN TOPIC_OPTIONS THEN TOPIC_OPTIONS[domain]
  ELSE <<>>

\* updateTopicOptions with the innerHTML assignment left out: the new
\* options are appended to the old ones and the selection is kept
updateTopicOptionsAppend(domain) ==
  /\ topicOpts' = topicOpts \o TopicsOf(domain)
  /\ topicValue' = topicValue

\* updateTopicOptions(), reading domainSelect.value = domain: the innerHTML
\* assignment leaves the one option "" (which becomes the selected one), and
\* the loop appends one option per topic
updateTopicOptions(domain) ==
  /\ topicOpts' = <<"">> \o TopicsOf(domain)
  /\ topicValue' = ""

\* x || null
OrNull(x) == IF x = "" THEN [isNull |-> TRUE, v |-> ""] ELSE [isNull |-> FALSE, v |-> x]

NoMicro == [req |-> 0, kind |-> "none", data |-> ErrorObject("")]
NoResponse == [req |-> 0, data |-> ErrorObject("")]

\* ------------------------------------------------- the solve pipeline
\* One request in the pipeline of the server: Received -> Interpreted ->
\* Bound -> Computed -> Verified -> Scored -> {Answered | Refused | Errored}.
\* Scores are percentages.
RuleConfidences     == {75, 100}   \* selection confidence of a rule match
FallbackConfidences == {25, 50}    \* capped below every rule-matched one
SoftPassed          == {0, 50, 100}
Thresholds          == {0, 40, 75}
FallbackPenalty     == 80          \* the multiplier (< 1.0) of a fallback

Min(a, b) == IF a <= b THEN a ELSE b

\* the gate with the comparison left out
MeetsThresholdAlways(score, threshold) == TRUE

\* below the threshold no answer is given
MeetsThreshold(score, threshold) == score >= threshold

\* a hard-severity failure blocks the answer
HardBlocks(hard) == hard > 0

\* minimum of the sub-scores (binding completeness is 100 at this stage),
\* scaled by the fallback penalty
Aggregate(selection, soft, isFallback) ==
  LET m == Min(selection, Min(100, soft))
  IN  IF isFallback THEN (m * FallbackPenalty) \div 100 ELSE m

PagePart ==
  <<copy, domainValue, topicOpts, topicValue, loaderHidden, buttonDisabled,
    resultHidden, resultContent, reqs, micro, handed, sent>>

NoPipe ==
  [stage |-> "None", prev |-> "None", selection |-> 0, isFallback |-> FALSE,
   resolveFailures |-> 0, missing |-> 0, hard |-> 0, soft |-> 0, score |-> 0,
   threshold |-> 0]

Move(to) == [pipe EXCEPT !.stage = to, !.prev = pipe.stage]

\* TaskInterpreter and CardSelector: a card by rule match, a card by the
\* heuristic fallback, or InterpretationError / NoMatchingCardError
Interpret ==
  /\ UNCHANGED PagePart
  /\ pipe.stage = "Received"
  /\ \/ \E c \in RuleConfidences :
          pipe' = [Move("Interpreted") EXCEPT !.selection = c]
     \/ \E c \in FallbackConfidences :
          pipe' = [Move("Interpreted") EXCEPT !.selection = c, !.isFallback = TRUE]
     \/ pipe' = Move("Refused")

\* DataResolver.resolve: the bindings, with some required inputs missing or
\* none; an UpstreamDataError (a timeout included) is retried once
Resolve ==
  /\ UNCHANGED PagePart
  /\ pipe.stage = "Interpreted"
  /\ \/ \E m \in 0..MaxMissing : pipe' = [Move("Bound") EXCEPT !.missing = m]
     \/ /\ pipe.resolveFailures = 0
        /\ pipe' = [pipe EXCEPT !.resolveFailures = 1]
     \/ /\ pipe.resolveFailures = 1
        /\ pipe' = [Move("Errored") EXCEPT !.resolveFailures = 2]

\* SymbolicEngine: refuse on a missing input, else evaluate; an
\* EvaluationError is fatal
Evaluate ==
  /\ UNCHANGED PagePart
  /\ pipe.stage = "Bound"
  /\ \/ /\ pipe.missing > 0
        /\ pipe' = Move("Refused")
     \/ /\ pipe.missing = 0
        /\ pipe' = Move("Computed")
     \/ /\ pipe.missing = 0
        /\ pipe' = Move("Errored")

\* VerificationLayer: every check yields pass or fail with its severity
Verify ==
  /\ UNCHANGED PagePart
  /\ pipe.stage = "Computed"
  /\ \E h \in 0..MaxHard, sp \in SoftPassed :
       pipe' = [Move("Verified") EXCEPT !.hard = h, !.soft = sp]

\* a hard failure refuses whatever the score; else ConfidenceScorer
Score ==
  /\ UNCHANGED PagePart
  /\ pipe.stage = "Verified"
  /\ \/ /\ HardBlocks(pipe.hard)
        /\ pipe' = Move("Refused")
     \/ /\ ~HardBlocks(pipe.hard)
        /\ pipe' = [Move("Scored") EXCEPT
                      !.score = Aggregate(pipe.selection, pipe.soft, pipe.isFallback)]

\* the threshold gate, then AuditAssembler
Decide ==
  /\ UNCHANGED PagePart
  /\ pipe.stage = "Scored"
  /\ \/ /\ MeetsThreshold(pipe.score, pipe.threshold)
        /\ pipe' = Move("Answered")
     \/ /\ ~MeetsThreshold(pipe.score, pipe.threshold)
        /\ pipe' = Move("Refused")

PipelineNext ==
  \/ Interpret
  \/ Resolve
  \/ Evaluate
  \/ Verify
  \/ Score
  \/ Decide

Init ==
  /\ copy \in Copies
  /\ domainValue \in DomainValues
  /\ topicOpts = <<"">> \o TopicsOf(domainValue)
  /\ topicValue = ""
  /\ loaderHidden = TRUE
  /\ buttonDisabled = FALSE
  /\ resultHidden = TRUE
  /\ resultContent = EmptyView
  /\ reqs = <<>>
  /\ micro = NoMicro
  /\ handed = NoResponse
  /\ sent = [domain |-> OrNull(""), topic |-> OrNull("")]
  /\ pipe = NoPipe

\* A queued continuation runs before the event loop takes the next event.
Idle == micro.req = 0

\* the "change" listener of domainSelect
DomainChange(d) ==
  /\ Idle
  /\ d # domainValue
  /\ domainValue' = d
  /\ updateTopicOptions(d)
  /\ UNCHANGED <<pipe, copy, loaderHidden, buttonDisabled, resultHidden,
                 resultContent, reqs, micro, handed, sent>>

\* the user picks one of the options of topicSelect
TopicSelect(t) ==
  /\ Idle
  /\ \E i \in 1..Len(topicOpts) : topicOpts[i] = t
  /\ t # topicValue
  /\ topicValue' = t
  /\ UNCHANGED <<pipe, copy, domainValue, topicOpts, loaderHidden, buttonDisabled,
                 resultHidden, resultContent, reqs, micro, handed, sent>>

\* setLoading(isLoading)
setLoading(isLoading) ==
  /\ loaderHidden' = ~isLoading
  /\ buttonDisabled' = isLoading

\* The "submit" listener up to its first await: the listener itself tests
\* nothing, so it runs for every submit event the form receives
\* (form.requestSubmit(), a dispatched event, the Enter key), whether or not
\* the button is disabled.
SubmitUpTo(n) ==
  /\ Idle
  /\ Len(reqs) < n
  /\ resultHidden' = TRUE
  /\ resultContent' = EmptyView
  /\ setLoading(TRUE)
  /\ sent' = [domain |-> OrNull(domainValue), topic |-> OrNull(topicValue)]
  /\ reqs' = Append(reqs, [pc |-> "fetch", attempts |-> 1, failures |-> 0,
                           outcome |-> "none"])
  /\ handed' = NoResponse
  /\ UNCHANGED <<pipe, copy, domainValue, topicOpts, topicValue, micro>>

Submit == SubmitUpTo(MaxRequests)

\* the first submit of a page
FirstSubmit == SubmitUpTo(1)

\* the network settles the promise of fetch(): a response, or a rejection
FetchSettle(i, ok) ==
  /\ Idle
  /\ i \in 1..Len(reqs)
  /\ reqs[i].pc = "fetch"
  /\ micro' = [NoMicro EXCEPT !.req = i, !.kind = IF ok THEN "fetchOk" ELSE "fetchErr"]
  /\ UNCHANGED <<pipe, copy, domainValue, topicOpts, topicValue, loaderHidden,
                 buttonDisabled, resultHidden, resultContent, reqs, handed, sent>>

\* the promise of response.json() settles: the parsed body, or a rejection
JsonSettle(i, ok, data) ==
  /\ Idle
  /\ i \in 1..Len(reqs)
  /\ reqs[i].pc = "json"
  /\ micro' = IF ok THEN [req |-> i, kind |-> "jsonOk", data |-> data]
              ELSE [NoMicro EXCEPT !.req = i, !.kind = "jsonErr"]
  /\ UNCHANGED <<pipe, copy, domainValue, topicOpts, topicValue, loaderHidden,
                 buttonDisabled, resultHidden, resultContent, reqs, handed, sent>>

Element == [hidden |-> resultHidden, content |-> resultContent]

\* catch (error) { renderResult({status: "error", message}) } finally
\* { setLoading(false) }, after a rejected fetch() or response.json()
CatchFinally(i, message) ==
  LET el == renderResult(copy, Element, ErrorObject(message))
  IN  /\ resultHidden' = el.hidden
      /\ resultContent' = el.content
      /\ setLoading(FALSE)
      /\ reqs' = [reqs EXCEPT ![i].pc = "done",
                              ![i].failures = @ + 1,
                              ![i].outcome = el.content.kind]
      /\ handed' = [req |-> i, data |-> ErrorObject(message)]

\* renderResult(data), the catch block when that throws, and finally
RenderFinally(i, data) ==
  LET el == RenderOrCatch(copy, Element, data)
  IN  /\ resultHidden' = el.hidden
      /\ resultContent' = el.content
      /\ setLoading(FALSE)
      /\ reqs' = [reqs EXCEPT ![i].pc = "done", ![i].outcome = el.content.kind]
      /\ handed' = [req |-> i, data |-> data]

\* the continuation of the submit listener after the settled promise
RunMicrotask ==
  /\ ~Idle
  /\ micro' = NoMicro
  /\ \/ /\ micro.kind = "fetchOk"
        /\ reqs' = [reqs EXCEPT ![micro.req].pc = "json"]
        /\ UNCHANGED <<loaderHidden, buttonDisabled, resultHidden,
                       resultContent, handed>>
     \/ /\ micro.kind = "fetchErr"
        /\ CatchFinally(micro.req, "Failed to fetch")
     \/ /\ micro.kind = "jsonOk"
        /\ RenderFinally(micro.req, micro.data)
     \/ /\ micro.kind = "jsonErr"
        /\ CatchFinally(micro.req, "Unexpected token")
  /\ UNCHANGED <<pipe, copy, domainValue, topicOpts, topicValue, sent>>

\* the bodies the server answers with while the selectors are exercised
FewResponses ==
  {Response("success", Present(<<sExcess, sSharpe>>), Absent, ""),
   Response("refused", Absent, Present(<<"std">>), "")}

\* the request events: submit, the network, the continuations
RequestNext ==
  \/ Submit
  \/ \E i \in 1..MaxRequests, ok \in BOOLEAN : FetchSettle(i, ok)
  \/ \E i \in 1..MaxRequests, ok \in BOOLEAN, data \in Responses : JsonSettle(i, ok, data)
  \/ RunMicrotask

\* every event of the page, the selectors included
Next ==
  \/ \E d \in DomainValues : DomainChange(d)
  \/ \E t \in {"sharpe", "sortino", "duration", ""} : TopicSelect(t)
  \/ Submit
  \/ \E i \in 1..MaxRequests, ok \in BOOLEAN : FetchSettle(i, ok)
  \/ \E i \in 1..MaxRequests, ok \in BOOLEAN, data \in FewResponses : JsonSettle(i, ok, data)
  \/ RunMicrotask

\* The page with every response the server can send; the selectors keep the
\* value they have when the page is loaded.
Spec == Init /\ [][RequestNext]_vars

\* One request of a page, with every response the server can send.
RenderNext ==
  \/ FirstSubmit
  \/ \E ok \in BOOLEAN : FetchSettle(1, ok)
  \/ \E ok \in BOOLEAN, data \in Responses : JsonSettle(1, ok, data)
  \/ RunMicrotask

RenderSpec == Init /\ [][RenderNext]_vars

\* The page with the selectors changing between the requests.
PageSpec == Init /\ [][Next]_vars


\* The event loop runs every queued continuation; nothing makes the network
\* settle a promise.
FairSpec == Spec /\ WF_vars(RunMicrotask)

\* A request received by the pipeline, under each configured threshold.
PipelineInit ==
  /\ copy = "app"
  /\ domainValue = ""
  /\ topicOpts = <<"">>
  /\ topicValue = ""
  /\ loaderHidden = FALSE
  /\ buttonDisabled = TRUE
  /\ resultHidden = TRUE
  /\ resultContent = EmptyView
  /\ reqs = <<[pc |-> "fetch", attempts |-> 1, failures |-> 0, outcome |-> "none"]>>
  /\ micro = NoMicro
  /\ handed = NoResponse
  /\ sent = [domain |-> OrNull(""), topic |-> OrNull("")]
  /\ \E t \in Thresholds : pipe = [NoPipe EXCEPT !.stage = "Received", !.threshold = t]

PipelineSpec == PipelineInit /\ [][PipelineNext]_vars

\* --------------------------------------------------------------- claims
Rendered == handed.req # 0
InFlight(i) == i \in 1..Len(reqs) /\ reqs[i].pc # "done"
AllDone == \A i \in 1..Len(reqs) : reqs[i].pc = "done"

\* the view the status of a response selects
ViewOfStatus(status) ==
  IF status = "success" THEN "success"
  ELSE IF status = "refused" THEN "refused" ELSE "error"

\* C1: the view shown for a response handed to renderResult is the one its
\* status selects (success, refused, otherwise error), whatever else the
\* response holds, in both copies of the script.
C1_ViewByStatusAlone ==
  Rendered => resultContent.kind = ViewOfStatus(handed.data.status)

\* C3: Answered is entered only from Scored, and only with no hard-severity
\* failure and a score at or above the threshold; a request with a hard
\* failure or a score below the threshold is never Answered.
C3_AnsweredOnlyIfVerifiedAndScored ==
  pipe.stage = "Answered" =>
     /\ pipe.prev = "Scored"
     /\ pipe.hard = 0
     /\ pipe.score >= pipe.threshold

\* a fallback match whose penalised score still meets the threshold is answered
C3_Witness ==
  /\ pipe.stage = "Answered"
  /\ pipe.isFallback
  /\ pipe.threshold > 0
  /\ pipe.score = pipe.threshold

\* the names a missing-fields line lists: its tokens without the separators
NamesListed(tokens) ==
  [k \in 1..((Len(tokens) + 1) \div 2) |-> tokens[2 * k - 1]]

\* C2: for a refused response the missing-fields line is shown if and only
\* if missing_inputs is present and non-empty, and it lists exactly the
\* elements of missing_inputs in their order.
C2_MissingLineIffNonEmpty ==
  (Rendered /\ handed.data.status = "refused") =>
     /\ resultContent.kind = "refused"
     /\ resultContent.reason = handed.data.reason
     /\ resultContent.missing.shown <=>
          (handed.data.missing_inputs.present
             /\ Len(handed.data.missing_inputs.items) > 0)
     /\ resultContent.missing.shown =>
          NamesListed(resultContent.missing.tokens) = handed.data.missing_inputs.items

\* C4: every submitted request eventually ends in a terminal outcome; a
\* call that never answers does not leave it waiting forever.
C4_EveryRequestEnds ==
  \A i \in 1..MaxRequests :
     (Len(reqs) >= i) ~> (Len(reqs) >= i /\ reqs[i].pc = "done")

\* C5: a failed external call is retried exactly once: a request reaches
\* the error outcome through call failures only after two failed attempts.
C5_RetriedOnceBeforeError ==
  \A i \in 1..Len(reqs) :
     /\ reqs[i].attempts <= 2
     /\ (reqs[i].pc = "done" /\ reqs[i].failures > 0) =>
          (reqs[i].attempts = 2 /\ reqs[i].failures = 2)

\* C6: when the last rendered response is refused or error the result area
\* holds no output value and no steps; and while a submitted request has not
\* been rendered the result area is hidden and empty.
C6_SafeRefusalAtDisplay ==
  /\ (Rendered /\ handed.data.status \in {"refused", "error"}) =>
        (~resultContent.output.shown /\ resultContent.steps = <<>>)
  /\ (\E i \in 1..Len(reqs) : InFlight(i)) =>
        (resultHidden /\ resultContent = EmptyView)

\* a success response whose steps are ComputationSteps: present, each with
\* a numeric value
WellFormedSteps(data) ==
  /\ data.steps.present
  /\ \A i \in 1..Len(data.steps.items) : data.steps.items[i].value.t = "number"

C8_LoaderIffInFlight ==
  (~loaderHidden /\ buttonDisabled) <=> (\E i \in 1..Len(reqs) : InFlight(i))

\* C9: once every request has ended, the result displayed is that of the
\* most recently submitted request.
C9_LatestRequestWins ==
  (Len(reqs) > 0 /\ AllDone /\ Idle) => handed.req = Len(reqs)

Range(f) == {f[i] : i \in DOMAIN f}

\* C10: the topic selector holds the empty option followed by the topics
\* configured for the selected domain, in order; the selected topic is one
\* of its options; a submitted topic is null or a topic configured for the
\* submitted domain, which is then not null.
C10_TopicsFollowDomain ==
  /\ Len(topicOpts) >= 1
  /\ topicOpts[1] = ""
  /\ Tail(topicOpts) = IF domainValue \in DOMAIN TOPIC_OPTIONS
                       THEN TOPIC_OPTIONS[domainValue] ELSE <<>>
  /\ topicValue \in Range(topicOpts)
  /\ Len(reqs) > 0 =>
       \/ sent.topic.isNull
       \/ /\ ~sent.domain.isNull
          /\ sent.domain.v \in DOMAIN TOPIC_OPTIONS
          /\ sent.topic.v \in Range(TOPIC_OPTIONS[sent.domain.v])

\* a topic was sent under one domain, then the domain was changed and the
\* topic selector fell back to the empty option
C10_Witness ==
  /\ Len(reqs) > 0
  /\ sent.domain.v = "bond"
  /\ sent.topic.v = "duration"
  /\ domainValue = "risk"
  /\ topicValue = ""
  /\ Len(topicOpts) = 3

=============================================================================
